---- MODULE Spec2Model ----
(***************************************************************************)
(* A model of the ZX Spectrum Next mock (src/next.h): the paged memory,    *)
(* the four-slot address translation, the I/O port decode, the frame       *)
(* timing, the rendering, and the NIM and PNG image files.                 *)
(*                                                                         *)
(* The emulation context (struct _Next) is the record N.  Every API        *)
(* function is an operator from a context to the context it leaves         *)
(* behind, and every action applies one API call to N.                     *)
(***************************************************************************)
EXTENDS Integers, Sequences, FiniteSets, TLC

VARIABLES N,          \* the emulation context, struct _Next
          last,       \* the API call most recently made, with its arguments
          mostRecent, \* the bytes most recently written to the ports 0x7ffd
                      \* and 0x243b, and the calls made since the latter
          ops,        \* number of API calls made so far
          frames,     \* number of calls of the frame routine made so far
          files,      \* the files on disk: their bytes, by file name
          caller,     \* the caller's variables that receive an image read
          run         \* how the latest file call ran: what the heap and
                      \* the disk did for it, whether the process stopped
                      \* in it, the resources it took and gave back, and
                      \* the arena it left

vars == <<N, last, mostRecent, ops, frames, files, caller, run>>

----------------------------------------------------------------------------
(* Bounds of the model *)

\* API calls per behaviour
MaxOps == 3
\* longest buffer handed to a bulk write
MaxLen == 2
\* latest reading of clock() at a call of nxUpdate, in clocks since nxOpen
MaxClock == 650
\* most pixels of an image handed to nxNimWrite
MaxPixels == 520
\* images encoded by nxPngWrite per behaviour
MaxEncodes == 1
\* most pixels of an image of which the sizes are followed
MaxSizedPixels == 400000

----------------------------------------------------------------------------
(* Program constants *)

NX_NUM_PAGES == 64

\* clock() counts milliseconds under the C runtime of Win32
CLOCKS_PER_SEC == 1000
FRAME_RATE == 50
\* FRAME_TIME, like every time of the model, in clocks instead of seconds
FRAME_TIME == CLOCKS_PER_SEC \div FRAME_RATE

NX_DEFLATE_MAX_BLOCK_SIZE == 65536
NX_BLOCK_HEADER_SIZE == 5
NX_ARENA_INCREMENT == 4096

NX_SCREEN_WIDTH == 256
NX_SCREEN_HEIGHT == 192
NX_WINDOW_WIDTH == 320
NX_WINDOW_HEIGHT == 256
NX_BORDER_WIDTH == (NX_WINDOW_WIDTH - NX_SCREEN_WIDTH) \div 2
NX_BORDER_HEIGHT == (NX_WINDOW_HEIGHT - NX_SCREEN_HEIGHT) \div 2

\* indexed from 1 where the code indexes from 0
kColour_3bit == <<0, 36, 73, 109, 146, 182, 219, 255>>
kColour_2bit == <<0, 85, 170, 255>>

NX_PORT_ULA == 254
NX_PORT_LAYER2_PAGING == 4667
NX_PORT_REG_SELECT == 9275
NX_PORT_REG_RW == 9531
NX_PORT_128_PAGE == 32765
NX_PORT_NEXT_PAGE == 57341
\* 0x303b, the sprite status/slot select port the decoder names and ignores
PORT_SPRITE == 12347

\* register indices decoded on the data port
REG_L2_BANK == 18
REG_L2_SHADOW == 19
REG_L2_TRANSPARENT == 20

NX_HI(x) == (x \div 256) % 256
NX_LO(x) == x % 256

----------------------------------------------------------------------------
(* Inputs *)

\* bytes written to ports: 0x0b, 0x12, 0x13, 0x14, 0xff
ByteVals == {11, 18, 19, 20, 255}

\* the ports the decoder acts on: 0x00fe, 0xfffe, 0x7ffd, 0xdffd, 0x123b,
\* 0x243b, 0x253b
Ports == {NX_PORT_ULA, 65534, NX_PORT_128_PAGE, NX_PORT_NEXT_PAGE,
          NX_PORT_LAYER2_PAGING, NX_PORT_REG_SELECT, NX_PORT_REG_RW}

\* ports the decoder does not act on, and the byte written to them: 0x1ffd,
\* 0x303b, 0x003b, 0x1234
OtherPorts == {8189, PORT_SPRITE, 59, 4660}
OtherVals == {255}

\* registers and values of nxWriteReg: 0x12, 0x13, 0x14, 0xff and 0x0b, 0xff
RegVals == {REG_L2_BANK, REG_L2_SHADOW, REG_L2_TRANSPARENT, 255}
RegData == {11, 255}

\* the ports and bytes that set up paging and the Layer 2 write mapping
\* before memory is written: 0x13 maps writes to the normal Layer 2 bank,
\* 0xff to sub-bank 3 of the shadow bank
MemPorts == {NX_PORT_128_PAGE, NX_PORT_NEXT_PAGE, NX_PORT_LAYER2_PAGING}
MemPortVals == {19, 255}

\* logical addresses in every slot, the first and the last among them
Addrs == {0, 16384, 32767, 32768, 49152, 65535}
\* the last address of every slot, where a word straddles two slots or wraps
WordAddrs == {16383, 32767, 49151, 65535}
PokeBytes == {1, 255}
PokeWords == {4660}

\* the memory writes interleaved with port writes in the port specification
IOAddrs == {16384, 49152}
IOBytes == {1}

\* bulk write buffers: <<>>, <<1>>, <<1, 2>>, ...
Buffer(n) == [i \in 1..n |-> i]
Buffers == {Buffer(n) : n \in 0..MaxLen}
BufAddrs == {16383, 65535}
BufBanks == {5}
BufOffsets == {0, 16383}

----------------------------------------------------------------------------
(* Page memory: pages[bank][p].  Only the non-zero bytes are stored; every *)
(* other byte holds the 0 that nxMemoryClear left there.                   *)

NoBytes == [k \in {} |-> 0]

PageByte(pg, bank, p) ==
    IF <<bank, p>> \in DOMAIN pg THEN pg[<<bank, p>>] ELSE 0

PageStore(pg, bank, p, b) ==
    [k \in (IF b = 0 THEN DOMAIN pg \ {<<bank, p>>}
                     ELSE DOMAIN pg \cup {<<bank, p>>})
        |-> IF k = <<bank, p>> THEN b ELSE pg[k]]

----------------------------------------------------------------------------
(* nxOpen *)

InitNext ==
    [ banks                 |-> [s \in 0..3 |-> CASE s = 0 -> 0
                                                  [] s = 1 -> 5
                                                  [] s = 2 -> 2
                                                  [] s = 3 -> 0],
      pages                 |-> NoBytes,
      palette               |-> [i \in 0..255 |-> i],
      page0_2               |-> 0,
      page3_5               |-> 0,
      lastTimeStamp         |-> 0,
      currentTime           |-> 0,
      flashCount            |-> 0,
      flash                 |-> FALSE,
      border                |-> 0,
      layer2Bank            |-> 0,
      layer2BankStart       |-> 8,
      layer2ShadowBankStart |-> 11,
      layer2Transparent     |-> 227,
      layer2ShadowEnable    |-> FALSE,
      layer2Enable          |-> FALSE,
      layer2Write0          |-> FALSE,
      nextRegSelect         |-> 0,
      redraw                |-> FALSE ]

\* a pointer: null, or the bytes it points to
NullPtr == [null |-> TRUE, bytes |-> <<>>]
Ptr(bytes) == [null |-> FALSE, bytes |-> bytes]

\* an empty disk, and the caller's variables before any image is read
NoFiles == [f \in {} |-> <<>>]
NoImage == [width |-> 640, height |-> 480, img |-> NullPtr]

NoCall == [op |-> "nxOpen", a |-> 0, p |-> 0, data |-> <<>>, ok |-> TRUE]

NoWrites == [page |-> 0, select |-> 0, since |-> 0]

\* a call for which the heap and the disk do all they are asked
NoFailure == [alloc |-> TRUE, grow |-> "block", stale |-> 255,
              dest |-> "made"]
NoArena == [size |-> 0, cursor |-> 0, grown |-> FALSE]
NoRun == [env |-> NoFailure, crashed |-> FALSE,
          acquired |-> <<>>, released |-> <<>>, arena |-> NoArena,
          blocks |-> <<>>]

Init ==
    /\ N = InitNext
    /\ last = NoCall
    /\ mostRecent = NoWrites
    /\ ops = 0
    /\ frames = 0
    /\ files = NoFiles
    /\ caller = NoImage
    /\ run = NoRun

----------------------------------------------------------------------------
(* Window *)

\* nxRedraw: invalidates the window, which is repainted on a later WM_PAINT
nxRedraw(S) == [S EXCEPT !.redraw = TRUE]

----------------------------------------------------------------------------
(* Memory API *)

\* nxCalcMem: the bank and the offset in it that a logical address names
nxCalcMem(S, address, isWrite) ==
    LET slot == (address % 65536) \div 16384
        p    == address % 16384
    IN  IF isWrite /\ S.layer2Write0
        THEN [bank |-> (IF S.layer2ShadowEnable
                        THEN S.layer2ShadowBankStart + S.layer2Bank
                        ELSE S.layer2BankStart + S.layer2Bank) % 256,
              p    |-> p]
        ELSE [bank |-> S.banks[slot], p |-> p]

\* nxPoke indexing the pages by the slot, not by the bank mapped to it
nxPoke_BankIsSlot(S, address, b) ==
    LET m == nxCalcMem(S, address % 65536, TRUE)
    IN  [S EXCEPT !.pages = PageStore(S.pages, (address % 65536) \div 16384,
                                      m.p, b)]

nxPoke(S, address, b) ==
    LET m == nxCalcMem(S, address % 65536, TRUE)
    IN  [S EXCEPT !.pages = PageStore(S.pages, m.bank, m.p, b)]

\* nxPoke16 translating the address once and storing the high byte next to
\* the low byte in the same bank
nxPoke16_OneTranslation(S, address, w) ==
    LET m == nxCalcMem(S, address % 65536, TRUE)
    IN  [S EXCEPT !.pages =
            PageStore(PageStore(S.pages, m.bank, m.p, NX_LO(w)),
                      m.bank, (m.p + 1) % 16384, NX_HI(w))]

nxPoke16(S, address, w) ==
    nxPoke(nxPoke(S, address, NX_LO(w)), (address + 1) % 65536, NX_HI(w))

nxPokeEx(S, bank, address, b) ==
    [S EXCEPT !.pages = PageStore(S.pages, bank, address % 16384, b)]

nxPeekEx(S, bank, p) == PageByte(S.pages, bank, p % 16384)

nxPeek(S, address) ==
    LET m == nxCalcMem(S, address % 65536, FALSE)
    IN  nxPeekEx(S, m.bank, m.p)

nxPeek16(S, address) ==
    (nxPeek(S, address) + 256 * nxPeek(S, (address + 1) % 65536)) % 65536

\* the loop of nxPokeBuffer after i of the bytes of buffer were written
RECURSIVE PokeBufferLoop(_, _, _, _)
PokeBufferLoop(S, address, buffer, i) ==
    IF i = 0 THEN S
    ELSE nxPoke(PokeBufferLoop(S, address, buffer, i - 1),
                (address + (i - 1)) % 65536, buffer[i])

\* nxPokeBuffer adding address and size as 16-bit words, so that the sum
\* never exceeds 65536
nxPokeBuffer_WordSum(S, address, buffer) ==
    IF (address + Len(buffer)) % 65536 > 65536
    THEN [ok |-> FALSE, N |-> S]
    ELSE [ok |-> TRUE,
          N  |-> nxRedraw(PokeBufferLoop(S, address, buffer, Len(buffer)))]

\* nxPokeBuffer: [ok, N], the result and the context it leaves
nxPokeBuffer(S, address, buffer) ==
    IF address + Len(buffer) > 65536
    THEN [ok |-> FALSE, N |-> S]
    ELSE [ok |-> TRUE,
          N  |-> nxRedraw(PokeBufferLoop(S, address, buffer, Len(buffer)))]

\* the loop of nxPokeBufferEx after i of the bytes of buffer were written:
\* the address is the same in every iteration
RECURSIVE PokeBufferExLoop(_, _, _, _, _)
PokeBufferExLoop(S, bank, address, buffer, i) ==
    IF i = 0 THEN S
    ELSE nxPokeEx(PokeBufferExLoop(S, bank, address, buffer, i - 1),
                  bank, address, buffer[i])

\* nxPokeBufferEx: [ok, N], the result and the context it leaves
nxPokeBufferEx(S, bank, address, buffer) ==
    IF address + Len(buffer) > 16384
    THEN [ok |-> FALSE, N |-> S]
    ELSE [ok |-> TRUE,
          N  |-> nxRedraw(PokeBufferExLoop(S, bank, address, buffer,
                                           Len(buffer)))]

----------------------------------------------------------------------------
(* IO port API *)

\* the paging ports with the high paging bits shifted by 4, not by 3
OutPaging_Shift4(S, h, b) ==
    LET S1 == CASE h = 127 -> [S EXCEPT !.page0_2 = b % 8]
                [] h = 223 -> [S EXCEPT !.page3_5 = b % 8]
                [] OTHER   -> S
    IN  [S1 EXCEPT !.banks[3] = (S1.page0_2 + S1.page3_5 * 16) % 256]

\* the paging ports with the two port cases exchanged
OutPaging_SwappedPorts(S, h, b) ==
    LET S1 == CASE h = 223 -> [S EXCEPT !.page0_2 = b % 8]
                [] h = 127 -> [S EXCEPT !.page3_5 = b % 8]
                [] OTHER   -> S
    IN  [S1 EXCEPT !.banks[3] = (S1.page0_2 + S1.page3_5 * 8) % 256]

\* the paging ports with slot 3 switched in the case of port 0xdffd only
OutPaging_OnlyNextPage(S, h, b) ==
    CASE h = 127 -> [S EXCEPT !.page0_2 = b % 8]
      [] h = 223 -> [S EXCEPT !.page3_5 = b % 8,
                              !.banks[3] = (S.page0_2 + (b % 8) * 8) % 256]
      [] OTHER   -> S

\* case 0xfd of nxOut: the paging ports
OutPaging(S, h, b) ==
    LET S1 == CASE h = 127 -> [S EXCEPT !.page0_2 = b % 8]
                [] h = 223 -> [S EXCEPT !.page3_5 = b % 8]
                [] OTHER   -> S
    IN  [S1 EXCEPT !.banks[3] = (S1.page0_2 + S1.page3_5 * 8) % 256]

\* the ULA port write without the mask of the border colour
OutULA_NoMask(S, b) == nxRedraw([S EXCEPT !.border = b])

\* case 0xfe of nxOut: the ULA port
OutULA(S, b) == nxRedraw([S EXCEPT !.border = b % 8])

\* the Layer 2 access port write with the enable taken from bit 2
OutLayer2_EnableBit2(S, b) ==
    nxRedraw([S EXCEPT !.layer2Bank         = (b \div 64) % 4,
                       !.layer2ShadowEnable = ((b \div 8) % 2 = 1),
                       !.layer2Enable       = ((b \div 4) % 2 = 1),
                       !.layer2Write0       = (b % 2 = 1)])

\* case 0x12 of the Next ports: the Layer 2 access port
OutLayer2(S, b) ==
    nxRedraw([S EXCEPT !.layer2Bank         = (b \div 64) % 4,
                       !.layer2ShadowEnable = ((b \div 8) % 2 = 1),
                       !.layer2Enable       = ((b \div 2) % 2 = 1),
                       !.layer2Write0       = (b % 2 = 1)])

\* the register write without the masks of the bank starts
OutRegister_NoMask(S, b) ==
    CASE S.nextRegSelect = REG_L2_BANK ->
             nxRedraw([S EXCEPT !.layer2BankStart = b])
      [] S.nextRegSelect = REG_L2_SHADOW ->
             nxRedraw([S EXCEPT !.layer2ShadowBankStart = b])
      [] S.nextRegSelect = REG_L2_TRANSPARENT ->
             [S EXCEPT !.layer2Transparent = b]
      [] OTHER -> S

\* the register write with the two bank start cases exchanged
OutRegister_SwappedBanks(S, b) ==
    CASE S.nextRegSelect = REG_L2_SHADOW ->
             nxRedraw([S EXCEPT !.layer2BankStart = b % 32])
      [] S.nextRegSelect = REG_L2_BANK ->
             nxRedraw([S EXCEPT !.layer2ShadowBankStart = b % 32])
      [] S.nextRegSelect = REG_L2_TRANSPARENT ->
             [S EXCEPT !.layer2Transparent = b]
      [] OTHER -> S

\* case 0x25 of the Next ports: the register selected is written
OutRegister(S, b) ==
    CASE S.nextRegSelect = REG_L2_BANK ->
             nxRedraw([S EXCEPT !.layer2BankStart = b % 32])
      [] S.nextRegSelect = REG_L2_SHADOW ->
             nxRedraw([S EXCEPT !.layer2ShadowBankStart = b % 32])
      [] S.nextRegSelect = REG_L2_TRANSPARENT ->
             [S EXCEPT !.layer2Transparent = b]
      [] OTHER -> S

\* the port decode with every high byte of low byte 0x3b taken as Layer 2
nxOut_AnyLayer2High(S, port, b) ==
    LET h == NX_HI(port)
        l == NX_LO(port)
    IN  CASE l = 253 -> OutPaging(S, h, b)
          [] l = 254 -> OutULA(S, b)
          [] l = 59  -> (CASE h = 36 -> [S EXCEPT !.nextRegSelect = b]
                           [] h = 37 -> OutRegister(S, b)
                           [] OTHER  -> OutLayer2(S, b))
          [] OTHER   -> S

nxOut(S, port, b) ==
    LET h == NX_HI(port)
        l == NX_LO(port)
    IN  CASE l = 253 -> OutPaging(S, h, b)
          [] l = 254 -> OutULA(S, b)
          [] l = 59  -> (CASE h = 18 -> OutLayer2(S, b)
                           [] h = 36 -> [S EXCEPT !.nextRegSelect = b]
                           [] h = 37 -> OutRegister(S, b)
                           [] h = 48 -> S
                           [] OTHER  -> S)
          [] OTHER   -> S

nxIn(S, port) == 0

nxWriteReg(S, reg, value) ==
    nxOut(nxOut(S, NX_PORT_REG_SELECT, reg), NX_PORT_REG_RW, value)

----------------------------------------------------------------------------
(* Frame timing.  Times are kept in clocks, CLOCKS_PER_SEC to the second,  *)
(* so that the sums and differences nxUpdate makes are exact.              *)

\* clocks that pass between two calls of nxUpdate: half a frame, one and a
\* half frames, two and a half frames
ClockDiffs == {10, 30, 50}

\* nxTime when clock() returns t: the time since the last call
nxTime(S, t) ==
    [secs |-> t - S.lastTimeStamp, N |-> [S EXCEPT !.lastTimeStamp = t]]

\* nxUpdate with the flash inverted at a count of 15
nxUpdate_Count15(S, t) ==
    LET r  == nxTime(S, t)
        S1 == [r.N EXCEPT !.currentTime = @ + r.secs]
    IN  IF S1.currentTime > FRAME_TIME
        THEN LET S2 == [S1 EXCEPT !.currentTime = @ - FRAME_TIME,
                                  !.flashCount = @ + 1]
             IN  [frame |-> TRUE,
                  N |-> IF S2.flashCount = 15
                        THEN nxRedraw([S2 EXCEPT !.flashCount = 0,
                                                 !.flash = ~@])
                        ELSE S2]
        ELSE [frame |-> FALSE, N |-> S1]

\* nxUpdate when clock() returns t, up to the message pump; frame tells
\* whether the frame routine is called
nxUpdate(S, t) ==
    LET r  == nxTime(S, t)
        S1 == [r.N EXCEPT !.currentTime = @ + r.secs]
    IN  IF S1.currentTime > FRAME_TIME
        THEN LET S2 == [S1 EXCEPT !.currentTime = @ - FRAME_TIME,
                                  !.flashCount = @ + 1]
             IN  [frame |-> TRUE,
                  N |-> IF S2.flashCount = 16
                        THEN nxRedraw([S2 EXCEPT !.flashCount = 0,
                                                 !.flash = ~@])
                        ELSE S2]
        ELSE [frame |-> FALSE, N |-> S1]

----------------------------------------------------------------------------
(* Rendering.  A pixel of the image, an nxDword, is the sequence of its    *)
(* four bytes, high byte first; a write is the offset in the image that   *)
(* is written, at, and the pixel written there, colour.  The image is     *)
(* followed row by row: both passes advance img by NX_WINDOW_WIDTH a row. *)

\* the table colours of nxRenderULA, indexed from 1
colours ==
    << <<0, 0, 0, 0>>,     <<0, 0, 0, 215>>,   <<0, 215, 0, 0>>,
       <<0, 215, 0, 215>>, <<0, 0, 215, 0>>,   <<0, 0, 215, 215>>,
       <<0, 215, 215, 0>>, <<0, 215, 215, 215>>,
       <<0, 0, 0, 0>>,     <<0, 0, 0, 255>>,   <<0, 255, 0, 0>>,
       <<0, 255, 0, 255>>, <<0, 0, 255, 0>>,   <<0, 0, 255, 255>>,
       <<0, 255, 255, 0>>, <<0, 255, 255, 255>> >>

\* the offset of img when the pass comes to row r of the screen
RowStart(r) == (r + NX_BORDER_HEIGHT) * NX_WINDOW_WIDTH

\* the addresses p and a of the first cell of row r
ULAPixelAddress(r) ==
    (r \div 64) * 2048 + (r % 8) * 256 + ((r \div 8) % 8) * 32
ULAAttrAddress(r) == 6144 + (r \div 8) * 32

\* the ink and the paper of an attribute, with paper taken from the bits
\* 3 to 5 only
ULAColours_Paper3Bits(S, attr) ==
    LET ink   == colours[(attr % 8) + 8 * ((attr \div 64) % 2) + 1]
        paper == colours[((attr \div 8) % 8) + 1]
    IN  IF attr >= 128 /\ S.flash
        THEN [ink |-> paper, paper |-> ink]
        ELSE [ink |-> ink, paper |-> paper]

\* the ink and the paper of an attribute, after the exchange made when
\* the attribute flashes and the flash of the context is on
ULAColours(S, attr) ==
    LET ink   == colours[(attr % 8) + 8 * ((attr \div 64) % 2) + 1]
        paper == colours[((attr % 128) \div 8) + 1]
    IN  IF attr >= 128 /\ S.flash
        THEN [ink |-> paper, paper |-> ink]
        ELSE [ink |-> ink, paper |-> paper]

\* the write that iteration k of the inner loop makes for cell x of row r:
\* i counts down from 7 and data is shifted right in every iteration
ULACellWrite(S, r, x, k) ==
    LET data == nxPeekEx(S, 5, ULAPixelAddress(r) + x)
        attr == nxPeekEx(S, 5, ULAAttrAddress(r) + x)
        c    == ULAColours(S, attr)
    IN  [at     |-> RowStart(r) + NX_BORDER_WIDTH + 8 * x + (7 - k),
         colour |-> IF (data \div (2 ^ k)) % 2 = 1 THEN c.ink ELSE c.paper]

\* n writes of the border colour, from the offset given
BorderWrites(S, from, n) ==
    [j \in 1..n |-> [at     |-> from + j - 1,
                     colour |-> colours[(S.border % 8) + 1]]]

\* nxRenderULA: the writes made for row r, -32 <= r < 224, in order
nxRenderULA(S, r) ==
    IF r < 0 \/ r >= NX_SCREEN_HEIGHT
    THEN BorderWrites(S, RowStart(r), NX_WINDOW_WIDTH)
    ELSE BorderWrites(S, RowStart(r), NX_BORDER_WIDTH)
             \o [j \in 1..NX_SCREEN_WIDTH |->
                    ULACellWrite(S, r, (j - 1) \div 8, (j - 1) % 8)]
             \o BorderWrites(S, RowStart(r) + NX_BORDER_WIDTH
                                    + NX_SCREEN_WIDTH, NX_BORDER_WIDTH)

nxConvertNextLayer2Pixel(S, pixel) ==
    LET c == S.palette[pixel]
    IN  <<255, kColour_3bit[(c \div 32) + 1],
          kColour_3bit[((c \div 4) % 8) + 1], kColour_2bit[(c % 4) + 1]>>

\* nxRenderLayer2 comparing the colour of the palette, not the pixel, with
\* the transparent index
nxRenderLayer2_PaletteTransparent(S, r) ==
    LET bank == IF S.layer2ShadowEnable THEN S.layer2ShadowBankStart
                                        ELSE S.layer2BankStart
        pixel(col) == nxPeekEx(S, (bank + r \div 64) % 256,
                               (r % 64) * 256 + col)
        Opaque(w) == S.palette[w.pixel] # S.layer2Transparent
    IN  SelectSeq([j \in 1..NX_SCREEN_WIDTH |->
                      [at     |-> RowStart(r) + NX_BORDER_WIDTH + j - 1,
                       pixel  |-> pixel(j - 1),
                       colour |-> nxConvertNextLayer2Pixel(S, pixel(j - 1))]],
                  Opaque)

\* nxRenderLayer2: the writes made for row r of the screen, 0 <= r < 192,
\* which is row r % 64 of bank r \div 64, in order; a write tells also
\* the pixel read from the bank
nxRenderLayer2(S, r) ==
    LET bank == IF S.layer2ShadowEnable THEN S.layer2ShadowBankStart
                                        ELSE S.layer2BankStart
        pixel(col) == nxPeekEx(S, (bank + r \div 64) % 256,
                               (r % 64) * 256 + col)
        Opaque(w) == w.pixel # S.layer2Transparent
    IN  SelectSeq([j \in 1..NX_SCREEN_WIDTH |->
                      [at     |-> RowStart(r) + NX_BORDER_WIDTH + j - 1,
                       pixel  |-> pixel(j - 1),
                       colour |-> nxConvertNextLayer2Pixel(S, pixel(j - 1))]],
                  Opaque)

\* nxRender: the writes made for row r, in order
nxRender(S, r) ==
    IF S.layer2Enable /\ r >= 0 /\ r < NX_SCREEN_HEIGHT
    THEN nxRenderULA(S, r) \o nxRenderLayer2(S, r)
    ELSE nxRenderULA(S, r)

\* the pixel that a sequence of writes leaves at offset k of the image;
\* what was never written is not known
Drawn(writes, k) ==
    LET hits == {i \in 1..Len(writes) : writes[i].at = k}
    IN  IF hits = {} THEN <<>>
        ELSE writes[CHOOSE i \in hits : \A j \in hits : j <= i].colour

----------------------------------------------------------------------------
(* Memory allocation and files *)

\* nxMemoryOp with no old block: no bytes asked for gives the null pointer
nxMemoryOp(newNumBytes) ==
    IF newNumBytes # 0 THEN Ptr([k \in 1..newNumBytes |-> 0]) ELSE NullPtr

nxMemoryAlloc(numBytes) == nxMemoryOp(numBytes)

\* nxDataLoad: the view of the file, or no bytes when the file is missing
\* or empty (a file of length 0 cannot be mapped)
nxDataLoad(fs, fileName) ==
    IF fileName \in DOMAIN fs /\ fs[fileName] # <<>>
    THEN [bytes |-> Ptr(fs[fileName]), size |-> Len(fs[fileName])]
    ELSE [bytes |-> NullPtr, size |-> 0]

\* nxDataMake where the system answers dest.  "made": the file is
\* created, or truncated, and mapped at the size given; a size of 0 cannot
\* be mapped and leaves the empty file behind.  "nomap": the file is
\* created, or truncated, and the mapping is refused.  "nofile": CreateFileA
\* fails; what it returns is INVALID_HANDLE_VALUE, which is not 0, and given
\* that handle CreateFileMappingA maps the paging file at the size asked, so
\* the view is writable and no file stands behind it.  The field file
\* tells whether the view is a view of the file; held, whether handles are
\* still open on return.
nxDataMakeAs(fs, fileName, size, dest) ==
    LET made(bytes) == [f \in DOMAIN fs \cup {fileName} |->
                           IF f = fileName THEN bytes ELSE fs[f]]
    IN  CASE dest = "made" /\ size # 0 ->
                 [bytes |-> Ptr([k \in 1..size |-> 0]), size |-> size,
                  files |-> made([k \in 1..size |-> 0]),
                  file |-> TRUE, held |-> TRUE]
          [] dest = "nofile" /\ size # 0 ->
                 [bytes |-> Ptr([k \in 1..size |-> 0]), size |-> size,
                  files |-> fs, file |-> FALSE, held |-> TRUE]
          [] dest = "nofile" ->
                 [bytes |-> NullPtr, size |-> 0, files |-> fs,
                  file |-> FALSE, held |-> FALSE]
          [] OTHER ->
                 [bytes |-> NullPtr, size |-> 0, files |-> made(<<>>),
                  file |-> FALSE, held |-> FALSE]

\* nxDataMake where nothing fails
nxDataMake(fs, fileName, size) == nxDataMakeAs(fs, fileName, size, "made")

\* nxDataUnload of a view that was written: the bytes reach the file
nxDataUnload(fs, fileName, bytes) ==
    [fs EXCEPT ![fileName] = bytes]

\* nxPokeFile: the result, the context it leaves, and the blobs it loads
\* and unloads; the size of the file is taken as an nxWord
nxPokeFile(S, fs, address, fileName) ==
    LET d == nxDataLoad(fs, fileName)
    IN  IF ~d.bytes.null
        THEN LET r == nxPokeBuffer(S, address,
                          SubSeq(d.bytes.bytes, 1, d.size % 65536))
             IN  [ok |-> r.ok, N |-> r.N,
                  acquired |-> <<"d">>, released |-> <<"d">>]
        ELSE [ok |-> FALSE, N |-> S,
              acquired |-> <<>>, released |-> <<>>]

\* the byte at offset k of a view; past the end of the file the rest of
\* the last page of the view reads as 0
ViewByte(d, k) == IF k < d.size THEN d.bytes.bytes[k + 1] ELSE 0

\* the nxWord at index i of a view read as an array of nxWord
ViewWord(d, i) == ViewByte(d, 2 * i) + 256 * ViewByte(d, 2 * i + 1)

----------------------------------------------------------------------------
(* Memory arenas.  An arena is the size of its buffer, its cursor and the  *)
(* bytes below the cursor.                                                 *)

\* What the heap does for an arena: alloc, whether NX_ALLOC gives the
\* buffer asked for; grow, what the realloc of nxArenaAlloc does.  That
\* realloc is given A, the address of the NxArena itself, which no
\* allocation returned: the behaviour is undefined, and the C library may
\* stop the process ("trap"), refuse ("null"), or hand out a block whose
\* first bytes are copies of what lay at A (every one the byte stale).
\* dest is what the disk does for nxDataMake.
NX_MAX(a, b) == IF a < b THEN b ELSE a

\* nxArenaInit: size is end - start, 0 when the buffer was not given;
\* start tells whether the arena has a buffer of its own
nxArenaInit(initialSize, heap) ==
    IF heap.alloc
    THEN [size |-> initialSize, cursor |-> 0, bytes |-> <<>>,
          start |-> TRUE, grown |-> FALSE, trap |-> FALSE, heap |-> heap]
    ELSE [size |-> 0, cursor |-> 0, bytes |-> <<>>,
          start |-> FALSE, grown |-> FALSE, trap |-> FALSE, heap |-> heap]

\* nxArenaAlloc: the arena left behind and the offset p of the bytes
\* given from its start, or the null pointer.  grown records that the
\* branch that grows the arena was taken.
RECURSIVE nxArenaAlloc(_, _)
nxArenaAlloc(A, numBytes) ==
    IF A.cursor + numBytes > A.size
    THEN LET currentSize  == A.size
             requiredSize == A.cursor + numBytes
             newSize      == currentSize
                                 + NX_MAX(requiredSize, NX_ARENA_INCREMENT)
         IN  CASE A.heap.grow = "block" ->
                      nxArenaAlloc(
                          [A EXCEPT !.size = newSize,
                                    !.bytes = [k \in 1..A.cursor |->
                                                  A.heap.stale],
                                    !.start = TRUE,
                                    !.grown = TRUE],
                          numBytes)
               [] A.heap.grow = "null" ->
                      [A |-> [A EXCEPT !.grown = TRUE],
                       null |-> TRUE, p |-> 0]
               [] OTHER ->
                      [A |-> [A EXCEPT !.grown = TRUE, !.trap = TRUE],
                       null |-> TRUE, p |-> 0]
    ELSE [A |-> [A EXCEPT !.cursor = @ + numBytes,
                          !.bytes = @ \o [k \in 1..numBytes |-> 0]],
          null |-> FALSE, p |-> A.cursor]

\* nxArenaAlloc followed by the nxMemoryCopy of data to the bytes given;
\* the copy to a null pointer is an access violation, which stops the
\* process, and a process that has stopped does nothing more
ArenaPut(A, data) ==
    LET r == nxArenaAlloc(A, Len(data))
    IN  IF A.trap THEN A
        ELSE IF r.null THEN [r.A EXCEPT !.trap = TRUE]
        ELSE [r.A EXCEPT !.bytes = SubSeq(@, 1, r.p) \o data]

----------------------------------------------------------------------------
(* Checksums.  An nxDword that holds a checksum is the sequence of its    *)
(* four bytes, high byte first.                                            *)

\* the exclusive or of two 4-bit values, of two bytes and of two words
Xor4 ==
    [a \in 0..15 |-> [b \in 0..15 |->
        ((a + b) % 2)
        + 2 * (((a \div 2) + (b \div 2)) % 2)
        + 4 * (((a \div 4) + (b \div 4)) % 2)
        + 8 * (((a \div 8) + (b \div 8)) % 2)]]

Xor8(a, b) == 16 * Xor4[a \div 16][b \div 16] + Xor4[a % 16][b % 16]

Xor32(a, b) ==
    <<Xor8(a[1], b[1]), Xor8(a[2], b[2]), Xor8(a[3], b[3]), Xor8(a[4], b[4])>>

\* c >> 1 and c >> 8
Shr1(c) ==
    <<c[1] \div 2, (c[1] % 2) * 128 + c[2] \div 2,
      (c[2] % 2) * 128 + c[3] \div 2, (c[3] % 2) * 128 + c[4] \div 2>>

Shr8(c) == <<0, c[1], c[2], c[3]>>

\* the inner loop of nxCrcMakeTable, with 0xedb88320
RECURSIVE CrcRounds(_, _)
CrcRounds(c, k) ==
    IF k = 0 THEN c
    ELSE CrcRounds(IF c[4] % 2 = 1 THEN Xor32(<<237, 184, 131, 32>>, Shr1(c))
                                   ELSE Shr1(c), k - 1)

\* nxCrcMakeTable
kCrcTable == [n \in 0..255 |-> CrcRounds(<<0, 0, 0, n>>, 8)]

\* the loop of nxCrc32Update; v holds its variables c and n
RECURSIVE Crc32Loop(_, _)
Crc32Loop(v, data) ==
    IF v.n >= Len(data) THEN v.c
    ELSE Crc32Loop([c |-> Xor32(kCrcTable[Xor8(v.c[4], data[v.n + 1])],
                                Shr8(v.c)),
                    n |-> v.n + 1], data)

nxCrc32Update(crc, data) == Crc32Loop([c |-> crc, n |-> 0], data)

nxCrc32(data) ==
    Xor32(nxCrc32Update(<<255, 255, 255, 255>>, data), <<255, 255, 255, 255>>)

\* the loop of nxAdler32; v holds its variables s1, s2 and i
RECURSIVE Adler32Loop(_, _)
Adler32Loop(v, data) ==
    IF v.i >= Len(data)
    THEN <<v.s2 \div 256, v.s2 % 256, v.s1 \div 256, v.s1 % 256>>
    ELSE LET s1 == (v.s1 + data[v.i + 1]) % 65521
         IN  Adler32Loop([s1 |-> s1, s2 |-> (v.s2 + s1) % 65521,
                          i |-> v.i + 1], data)

nxAdler32(state, data) ==
    Adler32Loop([s1 |-> state[3] * 256 + state[4],
                 s2 |-> state[1] * 256 + state[2], i |-> 0], data)

----------------------------------------------------------------------------
(* PNG files *)

\* the four bytes of a number, high byte first, as the code shifts them out
DwordBytes(d) ==
    <<(d \div 16777216) % 256, (d \div 65536) % 256, (d \div 256) % 256,
      d % 256>>

\* the four bytes nxPngWrite stores for the image byte src
PngPixel(S, src) ==
    <<kColour_3bit[(src \div 32) + 1], kColour_3bit[((src \div 4) % 8) + 1],
      kColour_2bit[(src % 4) + 1],
      IF src = S.layer2Transparent THEN 0 ELSE 255>>

\* newImg: the first loop of nxPngWrite
PngNewImg(S, img, width, height) ==
    [k \in 1..(4 * width * height) |->
        PngPixel(S, img[((k - 1) \div 4) + 1])[((k - 1) % 4) + 1]]

\* the header of a stored block when deflateRemain bytes are to come
PngBlockHeader(deflateRemain) ==
    LET size == IF deflateRemain < NX_DEFLATE_MAX_BLOCK_SIZE
                THEN deflateRemain % 65536
                ELSE NX_DEFLATE_MAX_BLOCK_SIZE
    IN  <<IF deflateRemain <= NX_DEFLATE_MAX_BLOCK_SIZE THEN 1 ELSE 0,
          size % 256, (size \div 256) % 256,
          255 - (size % 256), 255 - ((size \div 256) % 256)>>

\* the footer: Adler-32, the checksum of the chunk, and the IEND chunk
PngFooter(adler, crc) ==
    adler \o crc
        \o <<0, 0, 0, 0, 73, 69, 78, 68, 174, 66, 96, 130>>

\* The while loop of nxPngWrite.  L holds its variables: m the arena, pos
\* the number of bytes of imgBytes consumed, asserted whether the two
\* assertions have held.

\* start of a block
PngStartBlock(L) ==
    IF L.deflateFilled = 0
    THEN [L EXCEPT !.m = ArenaPut(@, PngBlockHeader(L.deflateRemain)),
                   !.crc = nxCrc32Update(@, PngBlockHeader(L.deflateRemain))]
    ELSE L

Min(a, b) == IF b < a THEN b ELSE a

\* number of bytes to write in this iteration: n starts at 0xffffffff,
\* which the counts of the model stay below
PngCount(L, lineSize) ==
    Min(Min(L.count, lineSize - L.x),
        NX_DEFLATE_MAX_BLOCK_SIZE - L.deflateFilled)

\* beginning of a row: the filter method
PngFilter(L) ==
    IF L.x = 0
    THEN [L EXCEPT !.m = ArenaPut(@, <<0>>),
                   !.crc = nxCrc32Update(@, <<0>>),
                   !.adler = nxAdler32(@, <<0>>),
                   !.deflateRemain = @ - 1,
                   !.deflateFilled = @ + 1,
                   !.x = @ + 1]
    ELSE L

\* the n bytes data are written, and the checksums updated
PngBytes(L, data, n) ==
    [L EXCEPT !.m = ArenaPut(@, data),
              !.crc = nxCrc32Update(@, data),
              !.adler = nxAdler32(@, data),
              !.pos = @ + n,
              !.count = @ - n,
              !.deflateRemain = @ - n,
              !.deflateFilled = IF @ + n = NX_DEFLATE_MAX_BLOCK_SIZE
                                THEN 0 ELSE @ + n,
              !.x = @ + n]

\* wrap things up
PngWrapUp(L) ==
    [L EXCEPT !.crc = nxCrc32Update(@, PngFooter(L.adler, <<0, 0, 0, 0>>)),
              !.m = ArenaPut(@, PngFooter(L.adler,
                        nxCrc32Update(L.crc,
                                      PngFooter(L.adler, <<0, 0, 0, 0>>))))]

\* one iteration, up to the test of the end of the row
PngIteration(L, imgBytes, lineSize) ==
    LET L1 == PngStartBlock(L)
        n3 == PngCount(L1, lineSize)
        n  == IF L1.x = 0 /\ L1.count # n3 THEN n3 - 1 ELSE n3
        L2 == PngFilter(L1)
    IN  [PngBytes(L2, SubSeq(imgBytes, L2.pos + 1, L2.pos + n), n)
            EXCEPT !.asserted =
                       /\ @
                       /\ L1.deflateFilled < NX_DEFLATE_MAX_BLOCK_SIZE
                       /\ n3 # 0]

\* the end of the row, and of the image
PngEndOfRow(L, lineSize, height) ==
    IF L.x = lineSize
    THEN IF L.y + 1 = height
         THEN [PngWrapUp(L) EXCEPT !.x = 0, !.y = @ + 1, !.done = TRUE]
         ELSE [L EXCEPT !.x = 0, !.y = @ + 1]
    ELSE L

RECURSIVE PngLoop(_, _, _, _)
PngLoop(L, imgBytes, lineSize, height) ==
    IF L.count <= 0 \/ L.done \/ L.m.trap THEN L
    ELSE PngLoop(PngEndOfRow(PngIteration(L, imgBytes, lineSize),
                             lineSize, height),
                 imgBytes, lineSize, height)

\* the 43 bytes nxPngWrite starts the file with
PngHeader(width, height, dataSize) ==
    LET ihdr == <<73, 72, 68, 82>> \o DwordBytes(width)
                    \o DwordBytes(height) \o <<8, 6, 0, 0, 0>>
    IN  <<137, 80, 78, 71, 13, 10, 26, 10>> \o <<0, 0, 0, 13>> \o ihdr
            \o nxCrc32(ihdr) \o DwordBytes(dataSize)
            \o <<73, 68, 65, 84>> \o <<8, 29>>

\* nxPngWrite: the bytes assembled in the arena, then the file made of
\* them.  env is what the heap and the disk do for this call.  crashed
\* tells that the process stopped inside the call, which then returns
\* nothing; acquired and released list the resources the call took and
\* gave back.
nxPngWrite(S, fs, fileName, img, width, height, env) ==
    LET newImg       == PngNewImg(S, img, width, height)
        lineSize     == width * 4 + 1
        imgSize      == lineSize * height
        blocks       == (imgSize \div NX_DEFLATE_MAX_BLOCK_SIZE)
                        + (IF (imgSize \div NX_DEFLATE_MAX_BLOCK_SIZE)
                                  * NX_DEFLATE_MAX_BLOCK_SIZE < imgSize
                           THEN 1 ELSE 0)
        overheadSize == blocks * 5 + 6
        dataSize     == imgSize + overheadSize
        header       == PngHeader(width, height, dataSize)
        L == PngLoop([m |-> ArenaPut(nxArenaInit(dataSize + 1024, env),
                                     header),
                      crc |-> nxCrc32(SubSeq(header, 38, 43)),
                      adler |-> <<0, 0, 0, 1>>,
                      deflateRemain |-> imgSize,
                      deflateFilled |-> 0,
                      count |-> width * height * 4,
                      x |-> 0, y |-> 0, pos |-> 0, asserted |-> TRUE,
                      done |-> FALSE],
                     newImg, lineSize, height)
        numBytes == L.m.cursor
        d == nxDataMakeAs(fs, fileName, numBytes, env.dest)
        taken == (IF width * height # 0 THEN <<"newImg">> ELSE <<>>)
                     \o (IF L.m.start THEN <<"arena">> ELSE <<>>)
    IN  IF L.m.trap
        THEN [ok |-> FALSE, crashed |-> TRUE, files |-> fs,
              m |-> L.m, asserted |-> L.asserted,
              acquired |-> taken, released |-> <<>>]
        ELSE IF ~d.bytes.null
        THEN [ok |-> TRUE, crashed |-> FALSE,
              files |-> IF d.file
                        THEN nxDataUnload(d.files, fileName, L.m.bytes)
                        ELSE d.files,
              m |-> L.m, asserted |-> L.asserted,
              acquired |-> taken \o <<"d">>,
              released |-> (IF width * height # 0 THEN <<"newImg">>
                                                  ELSE <<>>)
                               \o <<"d", "arena">>]
        ELSE [ok |-> FALSE, crashed |-> FALSE, files |-> d.files,
              m |-> L.m, asserted |-> L.asserted,
              acquired |-> taken \o <<"d">>,
              released |-> (IF width * height # 0 THEN <<"newImg">>
                                                  ELSE <<>>)
                               \o (IF d.held THEN <<>> ELSE <<"d">>)]

\* The sizes of nxPngWrite: the same loop with the bytes left out, for
\* images too large to follow byte by byte.  F holds the variables of the
\* loop, the arena m as its size and cursor, and blocks, the stored blocks
\* begun so far: the 5 bytes of the header of each, and the number of
\* bytes written after it.

\* nxArenaAlloc of numBytes on an arena whose buffer was given
PngSizeAlloc(F, numBytes) ==
    IF F.m.cursor + numBytes > F.m.size
    THEN [F EXCEPT !.m.size = @ + NX_MAX(F.m.cursor + numBytes,
                                         NX_ARENA_INCREMENT),
                   !.m.cursor = @ + numBytes,
                   !.m.grown = TRUE]
    ELSE [F EXCEPT !.m.cursor = @ + numBytes]

\* nxArenaAlloc of numBytes that belong to the stored block in progress
PngSizePayload(F, numBytes) ==
    [PngSizeAlloc(F, numBytes)
        EXCEPT !.blocks[Len(F.blocks)].payload = @ + numBytes]

PngSizeStartBlock(F) ==
    IF F.deflateFilled = 0
    THEN [PngSizeAlloc(F, NX_BLOCK_HEADER_SIZE)
             EXCEPT !.blocks = Append(@,
                        [header |-> PngBlockHeader(F.deflateRemain),
                         payload |-> 0])]
    ELSE F

\* number of bytes to write in this iteration; in unsigned arithmetic a
\* block filled beyond its size leaves a room that limits nothing
PngSizeCount(F, lineSize) ==
    LET n == Min(F.count, lineSize - F.x)
    IN  IF NX_DEFLATE_MAX_BLOCK_SIZE - F.deflateFilled < 0 THEN n
        ELSE Min(n, NX_DEFLATE_MAX_BLOCK_SIZE - F.deflateFilled)

PngSizeFilter(F) ==
    IF F.x = 0
    THEN [PngSizePayload(F, 1) EXCEPT !.deflateRemain = @ - 1,
                                      !.deflateFilled = @ + 1,
                                      !.x = @ + 1]
    ELSE F

PngSizeBytes(F, n) ==
    [PngSizePayload(F, n)
        EXCEPT !.count = @ - n,
               !.deflateRemain = @ - n,
               !.deflateFilled = IF @ + n = NX_DEFLATE_MAX_BLOCK_SIZE
                                 THEN 0 ELSE @ + n,
               !.x = @ + n]

PngSizeIteration(F, lineSize) ==
    LET F1 == PngSizeStartBlock(F)
        n3 == PngSizeCount(F1, lineSize)
        n  == IF F1.x = 0 /\ F1.count # n3 THEN n3 - 1 ELSE n3
    IN  [PngSizeBytes(PngSizeFilter(F1), n)
            EXCEPT !.asserted =
                       /\ @
                       /\ F1.deflateFilled < NX_DEFLATE_MAX_BLOCK_SIZE
                       /\ n3 # 0]

PngSizeEndOfRow(F, lineSize, height) ==
    IF F.x = lineSize
    THEN IF F.y + 1 = height
         THEN [PngSizeAlloc(F, 20) EXCEPT !.x = 0, !.y = @ + 1,
                                          !.done = TRUE]
         ELSE [F EXCEPT !.x = 0, !.y = @ + 1]
    ELSE F

RECURSIVE PngSizeLoop(_, _, _)
PngSizeLoop(F, lineSize, height) ==
    IF F.count <= 0 \/ F.done THEN F
    ELSE PngSizeLoop(PngSizeEndOfRow(PngSizeIteration(F, lineSize),
                                     lineSize, height),
                     lineSize, height)

\* the sizes of nxPngWrite with an arena of dataSize bytes and no more
PngSizes_NoSlack(width, height) ==
    LET lineSize     == width * 4 + 1
        imgSize      == lineSize * height
        blocks       == (imgSize \div NX_DEFLATE_MAX_BLOCK_SIZE)
                        + (IF (imgSize \div NX_DEFLATE_MAX_BLOCK_SIZE)
                                  * NX_DEFLATE_MAX_BLOCK_SIZE < imgSize
                           THEN 1 ELSE 0)
        overheadSize == blocks * 5 + 6
        dataSize     == imgSize + overheadSize
    IN  PngSizeLoop(
            PngSizeAlloc([m |-> [size |-> dataSize, cursor |-> 0,
                                 grown |-> FALSE],
                          deflateRemain |-> imgSize,
                          deflateFilled |-> 0,
                          count |-> width * height * 4,
                          x |-> 0, y |-> 0, blocks |-> <<>>,
                          asserted |-> TRUE, done |-> FALSE], 43),
            lineSize, height)

\* the sizes of nxPngWrite for an image of the given width and height
PngSizes(width, height) ==
    LET lineSize     == width * 4 + 1
        imgSize      == lineSize * height
        blocks       == (imgSize \div NX_DEFLATE_MAX_BLOCK_SIZE)
                        + (IF (imgSize \div NX_DEFLATE_MAX_BLOCK_SIZE)
                                  * NX_DEFLATE_MAX_BLOCK_SIZE < imgSize
                           THEN 1 ELSE 0)
        overheadSize == blocks * 5 + 6
        dataSize     == imgSize + overheadSize
    IN  PngSizeLoop(
            PngSizeAlloc([m |-> [size |-> dataSize + 1024, cursor |-> 0,
                                 grown |-> FALSE],
                          deflateRemain |-> imgSize,
                          deflateFilled |-> 0,
                          count |-> width * height * 4,
                          x |-> 0, y |-> 0, blocks |-> <<>>,
                          asserted |-> TRUE, done |-> FALSE], 43),
            lineSize, height)

PngFile == "image.png"

\* sides of the images encoded, and the bytes they are made of: green,
\* the transparent index that nxOpen sets, and a mix of red and green
PngSides == {0, 1, 2}
PngIndexes == {28, 227}

\* every image of the given sides
PngImages(w, h) == [1..(w * h) -> PngIndexes]

\* the palette nxOpen sets, and one in which the host program has
\* exchanged the entries 28 and 227 (the header has no call that writes
\* the palette; the field of the context is written directly)
Palettes ==
    { [i \in 0..255 |-> i],
      [i \in 0..255 |-> CASE i = 28 -> 227 [] i = 227 -> 28 [] OTHER -> i] }

\* the transparent index nxOpen sets, and one set through register 0x14
TransparentIndexes == {227, 28}

----------------------------------------------------------------------------
(* NIM files *)

\* nxNimRead with the width and height set before the version is tested
nxNimRead_HeaderFirst(fs, fileName, width, height) ==
    LET d == nxDataLoad(fs, fileName)
    IN  IF ~d.bytes.null
        THEN IF ViewWord(d, 0) # 0
             THEN [img |-> NullPtr, width |-> ViewWord(d, 1),
                   height |-> ViewWord(d, 2)]
             ELSE LET size == ViewWord(d, 1) * ViewWord(d, 2)
                      img  == nxMemoryAlloc(size)
                  IN  [img |-> IF ~img.null
                               THEN Ptr([k \in 1..size |->
                                            ViewByte(d, 6 + k - 1)])
                               ELSE NullPtr,
                       width |-> ViewWord(d, 1), height |-> ViewWord(d, 2)]
        ELSE [img |-> NullPtr, width |-> width, height |-> height]

\* nxNimRead: the image returned, and the caller's width and height as the
\* call leaves them
nxNimRead(fs, fileName, width, height) ==
    LET d == nxDataLoad(fs, fileName)
    IN  IF ~d.bytes.null
        THEN IF ViewWord(d, 0) # 0
             THEN [img |-> NullPtr, width |-> width, height |-> height]
             ELSE LET size == ViewWord(d, 1) * ViewWord(d, 2)
                      img  == nxMemoryAlloc(size)
                  IN  [img |-> IF ~img.null
                               THEN Ptr([k \in 1..size |->
                                            ViewByte(d, 6 + k - 1)])
                               ELSE NullPtr,
                       width |-> ViewWord(d, 1), height |-> ViewWord(d, 2)]
        ELSE [img |-> NullPtr, width |-> width, height |-> height]

\* the blobs nxNimRead loads, and those it unloads before it returns
nxNimReadBlobs(fs, fileName) ==
    LET d == nxDataLoad(fs, fileName)
    IN  IF ~d.bytes.null
        THEN IF ViewWord(d, 0) # 0
             THEN [acquired |-> <<"d">>, released |-> <<>>]
             ELSE IF ~nxMemoryAlloc(ViewWord(d, 1) * ViewWord(d, 2)).null
                  THEN [acquired |-> <<"d">>, released |-> <<"d">>]
                  ELSE [acquired |-> <<"d">>, released |-> <<>>]
        ELSE [acquired |-> <<>>, released |-> <<>>]

\* the two bytes of an nxWord as the processor stores them
WordBytes(w) == <<w % 256, w \div 256>>

\* nxNimWrite with the header words stored high byte first
nxNimWrite_BigEndian(fs, fileName, img, width, height) ==
    LET imgSize == width * height
        d       == nxDataMake(fs, fileName, imgSize + 3 * 2)
    IN  IF ~d.bytes.null
        THEN [ok |-> TRUE,
              files |-> nxDataUnload(d.files, fileName,
                            <<0, 0, width \div 256, width % 256,
                              height \div 256, height % 256>>
                            \o SubSeq(img, 1, imgSize))]
        ELSE [ok |-> FALSE, files |-> d.files]

nxNimWrite(fs, fileName, img, width, height) ==
    LET imgSize == width * height
        d       == nxDataMake(fs, fileName, imgSize + 3 * 2)
    IN  IF ~d.bytes.null
        THEN [ok |-> TRUE,
              files |-> nxDataUnload(d.files, fileName,
                            WordBytes(0) \o WordBytes(width)
                            \o WordBytes(height) \o SubSeq(img, 1, imgSize))]
        ELSE [ok |-> FALSE, files |-> d.files]

\* the file nxNimWrite is given, and a file that comes from elsewhere
ImageFile == "image.nim"
ForeignFile == "foreign.nim"

\* sides of the images written: none, short, and longer than one byte counts
NimSides == {0, 1, 2, 258}

\* the image of the given sides whose bytes count up from fill
NimImage(w, h, fill) == [k \in 1..(w * h) |-> (fill + k - 1) % 256]
NimFills == {0, 227}

\* files found on disk: of version 1, of version 0x0100, empty, and a
\* well-formed image of 2 by 1
ForeignFiles ==
    { <<1, 0, 1, 0, 1, 0, 9>>, <<0, 1, 1, 0, 1, 0, 9>>, <<>>,
      <<0, 0, 2, 0, 1, 0, 5, 6>> }

----------------------------------------------------------------------------
(* Actions: one API call each *)

Call(name, a, p, data, ok) ==
    /\ ops < MaxOps
    /\ last' = [op |-> name, a |-> a, p |-> p, data |-> data, ok |-> ok]
    /\ ops' = ops + 1
    /\ UNCHANGED <<frames, files, caller, run>>

\* a call that writes to neither port 0x7ffd nor port 0x243b
NoPortWritten ==
    mostRecent' = [mostRecent EXCEPT !.since = @ + 1]

Out(port, b) ==
    /\ N' = nxOut(N, port, b)
    /\ mostRecent' =
           CASE port = NX_PORT_128_PAGE ->
                    [mostRecent EXCEPT !.page = b, !.since = @ + 1]
             [] port = NX_PORT_REG_SELECT ->
                    [mostRecent EXCEPT !.select = b, !.since = 0]
             [] OTHER -> [mostRecent EXCEPT !.since = @ + 1]
    /\ Call("nxOut", port, 0, <<b>>, TRUE)

WriteReg(reg, value) ==
    /\ N' = nxWriteReg(N, reg, value)
    /\ mostRecent' = [mostRecent EXCEPT !.select = reg, !.since = 0]
    /\ Call("nxWriteReg", reg, 0, <<value>>, TRUE)

Poke(address, b) ==
    /\ N' = nxPoke(N, address, b)
    /\ NoPortWritten
    /\ Call("nxPoke", address, 0, <<b>>, TRUE)

Poke16(address, w) ==
    /\ N' = nxPoke16(N, address, w)
    /\ NoPortWritten
    /\ Call("nxPoke16", address, 0, <<w>>, TRUE)

PokeBuffer(address, buffer) ==
    LET r == nxPokeBuffer(N, address, buffer)
    IN  /\ N' = r.N
        /\ NoPortWritten
        /\ Call("nxPokeBuffer", address, 0, buffer, r.ok)

PokeBufferEx(bank, address, buffer) ==
    LET r == nxPokeBufferEx(N, bank, address, buffer)
    IN  /\ N' = r.N
        /\ NoPortWritten
        /\ Call("nxPokeBufferEx", bank, address, buffer, r.ok)

\* WM_PAINT: the invalidated window is repainted and validated
Paint ==
    /\ N.redraw
    /\ N' = [N EXCEPT !.redraw = FALSE]
    /\ NoPortWritten
    /\ Call("WM_PAINT", 0, 0, <<>>, TRUE)

\* nxUpdate is called diff clocks after the last call; the frame routine
\* counts its calls
Update(diff) ==
    LET r == nxUpdate(N, N.lastTimeStamp + diff)
    IN  /\ N.lastTimeStamp + diff <= MaxClock
        /\ N' = r.N
        /\ frames' = IF r.frame THEN frames + 1 ELSE frames
        /\ last' = [op |-> "nxUpdate", a |-> diff, p |-> 0, data |-> <<>>,
                    ok |-> TRUE]
        /\ NoPortWritten
        /\ UNCHANGED <<ops, files, caller, run>>

NimWrite(w, h, fill) ==
    LET img == NimImage(w, h, fill)
        r   == nxNimWrite(files, ImageFile, img, w, h)
    IN  /\ w * h <= MaxPixels
        /\ files' = r.files
        /\ last' = [op |-> "nxNimWrite", a |-> w, p |-> h, data |-> img,
                    ok |-> r.ok]
        /\ run' = [NoRun EXCEPT !.acquired = <<"d">>,
                                !.released = IF r.ok THEN <<"d">> ELSE <<>>]
        /\ UNCHANGED <<N, mostRecent, ops, frames, caller>>

NimRead(fileName) ==
    LET r == nxNimRead(files, fileName, caller.width, caller.height)
    IN  /\ caller' = [width |-> r.width, height |-> r.height,
                      img |-> r.img]
        /\ last' = [op |-> "nxNimRead", a |-> 0, p |-> 0,
                    data |-> <<fileName>>, ok |-> ~r.img.null]
        /\ run' = [NoRun EXCEPT
                       !.acquired = nxNimReadBlobs(files, fileName).acquired,
                       !.released = nxNimReadBlobs(files, fileName).released]
        /\ UNCHANGED <<N, mostRecent, ops, frames, files>>

\* a process that has stopped makes no further call
PngWrite(w, h, img, env) ==
    /\ ops < MaxEncodes
    /\ w * h <= MaxPixels
    /\ ~run.crashed
    /\ \E r \in {nxPngWrite(N, files, PngFile, img, w, h, env)} :
        /\ files' = r.files
        /\ ops' = ops + 1
        /\ last' = [op |-> "nxPngWrite", a |-> w, p |-> h, data |-> img,
                    ok |-> r.ok]
        /\ run' = [env |-> env, crashed |-> r.crashed,
                   acquired |-> r.acquired, released |-> r.released,
                   arena |-> [size |-> r.m.size, cursor |-> r.m.cursor,
                              grown |-> r.m.grown],
                   blocks |-> IF r.crashed THEN <<>>
                              ELSE PngSizes(w, h).blocks]
        /\ UNCHANGED <<N, mostRecent, frames, caller>>

PokeFile(address, fileName) ==
    \E r \in {nxPokeFile(N, files, address, fileName)} :
        /\ ops < MaxOps
        /\ N' = r.N
        /\ NoPortWritten
        /\ last' = [op |-> "nxPokeFile", a |-> address, p |-> 0,
                    data |-> <<fileName>>, ok |-> r.ok]
        /\ ops' = ops + 1
        /\ run' = [NoRun EXCEPT !.acquired = r.acquired,
                                !.released = r.released]
        /\ UNCHANGED <<frames, files, caller>>

\* the sizes of the encode of an image of the given width and height
PngSize(w, h) ==
    \E F \in {PngSizes(w, h)} :
        /\ w * h <= MaxSizedPixels
        /\ last' = [op |-> "nxPngWrite", a |-> w, p |-> h, data |-> <<>>,
                    ok |-> TRUE]
        /\ run' = [NoRun EXCEPT !.arena = F.m, !.blocks = F.blocks]
        /\ UNCHANGED <<N, mostRecent, ops, frames, files, caller>>

\* the memory specification: paging and Layer 2 set-up, then memory calls
Next ==
    \/ \E port \in MemPorts, b \in MemPortVals : Out(port, b)
    \/ \E a \in Addrs, b \in PokeBytes : Poke(a, b)
    \/ \E a \in WordAddrs, w \in PokeWords : Poke16(a, w)
    \/ \E a \in BufAddrs, buf \in Buffers : PokeBuffer(a, buf)
    \/ \E bank \in BufBanks, a \in BufOffsets, buf \in Buffers :
           PokeBufferEx(bank, a, buf)
    \/ Paint

Spec == Init /\ [][Next]_vars

\* the port specification: every port write and register write
NextIO ==
    \/ \E port \in Ports, b \in ByteVals : Out(port, b)
    \/ \E port \in OtherPorts, b \in OtherVals : Out(port, b)
    \/ \E reg \in RegVals, v \in RegData : WriteReg(reg, v)
    \/ \E a \in IOAddrs, b \in IOBytes : Poke(a, b)
    \/ Paint

SpecIO == Init /\ [][NextIO]_vars

\* the timing specification: updates at uneven intervals, and the repaints
NextFlash ==
    \/ \E diff \in ClockDiffs : Update(diff)
    \/ Paint

SpecFlash == Init /\ [][NextFlash]_vars

\* the NIM specification: images written and read back, with a file from
\* elsewhere on the disk
InitNim ==
    /\ N = InitNext
    /\ last = NoCall
    /\ mostRecent = NoWrites
    /\ ops = 0
    /\ frames = 0
    /\ files \in {[f \in {ForeignFile} |-> bytes] : bytes \in ForeignFiles}
    /\ caller = NoImage
    /\ run = NoRun

NextNim ==
    \/ \E w \in NimSides, h \in NimSides, fill \in NimFills :
           NimWrite(w, h, fill)
    \/ \E fileName \in {ImageFile, ForeignFile} : NimRead(fileName)

SpecNim == InitNim /\ [][NextNim]_vars

\* the PNG specification: images encoded under a palette and a transparent
\* index set beforehand
InitPng ==
    /\ N \in {[InitNext EXCEPT !.palette = pal, !.layer2Transparent = t] :
                 pal \in Palettes, t \in TransparentIndexes}
    /\ last = NoCall
    /\ mostRecent = NoWrites
    /\ ops = 0
    /\ frames = 0
    /\ files = NoFiles
    /\ caller = NoImage
    /\ run = NoRun

NextPng ==
    \/ \E w \in PngSides, h \in PngSides :
           \E img \in PngImages(w, h) : PngWrite(w, h, img, NoFailure)

SpecPng == InitPng /\ [][NextPng]_vars

\* what the heap and the disk may do for a call; the arenas of the model
\* grow only while they are empty, so that no stale byte is ever read
Envs ==
    [alloc : BOOLEAN, grow : {"block", "null", "trap"}, stale : {255},
     dest : {"made", "nofile", "nomap"}]

\* a screen the program has drawn with nxPokeEx.  In bank 5: the bitmap
\* bytes of the first cell of row 0 and of the last cell of row 191, the
\* attributes of the two cells (0x78, bright with paper 7, and 0xc7,
\* flashing and bright with ink 7), and those of the second cell of row 64.
\* In the Layer 2 banks, normal and shadow: the first two pixels of row 0,
\* the first of row 64, and the last of row 191.
TestScreen ==
    [k \in {<<5, 0>>, <<5, 6144>>, <<5, 6143>>, <<5, 6911>>,
            <<5, 2049>>, <<5, 6401>>,
            <<8, 0>>, <<8, 1>>, <<9, 0>>, <<10, 16383>>,
            <<11, 0>>, <<13, 16383>>} |->
        CASE k = <<5, 0>>      -> 128
          [] k = <<5, 6144>>   -> 120
          [] k = <<5, 6143>>   -> 1
          [] k = <<5, 6911>>   -> 199
          [] k = <<5, 2049>>   -> 165
          [] k = <<5, 6401>>   -> 58
          [] k = <<8, 0>>      -> 28
          [] k = <<8, 1>>      -> 227
          [] k = <<9, 0>>      -> 200
          [] k = <<10, 16383>> -> 28
          [] k = <<11, 0>>     -> 3
          [] k = <<13, 16383>> -> 224]

\* what the program does to the screen before it is painted: the border,
\* Layer 2 shown from the normal and from the shadow banks, the
\* transparent index, an attribute, a bitmap byte and a Layer 2 pixel
BorderVals == {2, 13}
Layer2Vals == {2, 10}
ScreenPokes ==
    { [bank |-> 5, p |-> 6144, b |-> 71], [bank |-> 5, p |-> 6144, b |-> 184],
      [bank |-> 5, p |-> 0, b |-> 165], [bank |-> 8, p |-> 0, b |-> 227],
      [bank |-> 9, p |-> 0, b |-> 28] }

\* the render specification: a screen is changed and painted
InitRender ==
    /\ N \in {[InitNext EXCEPT !.pages = TestScreen, !.flash = f,
                               !.palette = pal, !.redraw = TRUE] :
                 f \in BOOLEAN, pal \in Palettes}
    /\ last = NoCall
    /\ mostRecent = NoWrites
    /\ ops = 0
    /\ frames = 0
    /\ files = NoFiles
    /\ caller = NoImage
    /\ run = NoRun

NextRender ==
    \/ \E b \in BorderVals : Out(NX_PORT_ULA, b)
    \/ \E b \in Layer2Vals : Out(NX_PORT_LAYER2_PAGING, b)
    \/ WriteReg(REG_L2_TRANSPARENT, 28)
    \/ \E w \in ScreenPokes : PokeBufferEx(w.bank, w.p, <<w.b>>)
    \/ Paint

SpecRender == InitRender /\ [][NextRender]_vars

\* addresses a file is written to: one with room for it, two without
FileAddrs == {32768, 65530, 65535}

\* the file specification: files found on the disk are written to memory
\* and read as images
NextFile ==
    \/ \E a \in FileAddrs, fileName \in {ImageFile, ForeignFile} :
           PokeFile(a, fileName)
    \/ \E fileName \in {ImageFile, ForeignFile} : NimRead(fileName)

SpecFile == InitNim /\ [][NextFile]_vars

\* widths and heights of large images: rows that are a fraction of a
\* stored block, that fill one but for a few bytes, and that exceed one
LargeWidths == {1, 2, 4095, 4096, 8191, 8192, 16383, 16384, 16385, 32768}
LargeHeights == 1..12

\* the sizes specification: the sizes of nxPngWrite for large images
NextPngSize ==
    \/ \E w \in LargeWidths, h \in LargeHeights : PngSize(w, h)

SpecPngSize == Init /\ [][NextPngSize]_vars

\* a file that is on the disk, under the name of the image, before the call
OldFile == <<137, 80, 78, 71>>

\* images of one colour
PlainImages(w, h) == {[k \in 1..(w * h) |-> b] : b \in PngIndexes}

\* the PNG failure specification: images encoded while the heap and the
\* disk do, or fail to do, what they are asked
InitPngEnv ==
    /\ N = InitNext
    /\ last = NoCall
    /\ mostRecent = NoWrites
    /\ ops = 0
    /\ frames = 0
    /\ files \in {NoFiles, [f \in {PngFile} |-> OldFile]}
    /\ caller = NoImage
    /\ run = NoRun

NextPngEnv ==
    \/ \E w \in PngSides, h \in PngSides, env \in Envs :
           \E img \in PlainImages(w, h) : PngWrite(w, h, img, env)

SpecPngEnv == InitPngEnv /\ [][NextPngEnv]_vars

----------------------------------------------------------------------------
(* Properties of the memory API.  In a step, last' is the call being made  *)
(* and N the context it is made on.                                        *)

slotOf(address) == address \div 16384
offsetOf(address) == address % 16384

\* the bank the Layer 2 write mapping names
Layer2WriteBank(S) ==
    (IF S.layer2ShadowEnable THEN S.layer2ShadowBankStart
                             ELSE S.layer2BankStart) + S.layer2Bank

\* the two page memories agree on every byte outside cells
SamePagesExcept(pg1, pg2, cells) ==
    \A k \in (DOMAIN pg1 \cup DOMAIN pg2) \ cells :
        PageByte(pg1, k[1], k[2]) = PageByte(pg2, k[1], k[2])

\* C1: a byte write is redirected to the Layer 2 bank only when write0 is
\* set and the address lies in slot 1; a write to slot 0, 2 or 3 lands in
\* page banks[slot] at offset address & 0x3fff even while write0 is set,
\* and reads are never redirected.
C1_RedirectOnlyInSlot1 ==
    [][last'.op = "nxPoke" =>
          LET a    == last'.a
              bank == IF N.layer2Write0 /\ slotOf(a) = 1
                      THEN Layer2WriteBank(N)
                      ELSE N.banks[slotOf(a)]
          IN  /\ N'.pages = PageStore(N.pages, bank, offsetOf(a),
                                      last'.data[1])
              /\ nxCalcMem(N, a, FALSE).bank = N.banks[slotOf(a)]]_vars

\* C2: a byte written by nxPoke through the slot table (not through the
\* Layer 2 write mapping) is the byte nxPeek reads back at that address.
C2_PokeThenPeek ==
    (last.op = "nxPoke" /\ ~N.layer2Write0)
        => nxPeek(N, last.a) = last.data[1]

\* a byte was poked into slot 3 after slot 3 was paged to another bank
C2_Witness ==
    /\ last.op = "nxPoke"
    /\ ~N.layer2Write0
    /\ last.a = 49152
    /\ N.banks[3] = 63
    /\ nxPeek(N, last.a) = 255

\* C3: a successful nxPokeBufferEx(bank, offset, bytes) leaves
\* pages[bank][offset + i] = bytes[i] for every i and changes no other byte.
C3_BulkWriteBank ==
    [][(last'.op = "nxPokeBufferEx" /\ last'.p + Len(last'.data) <= 16384) =>
          LET bank == last'.a
              a    == last'.p
              buf  == last'.data
          IN  /\ last'.ok
              /\ \A i \in 1..Len(buf) :
                     PageByte(N'.pages, bank, a + i - 1) = buf[i]
              /\ SamePagesExcept(N.pages, N'.pages,
                     {<<bank, a + i - 1>> : i \in 1..Len(buf)})]_vars

\* C4: a bulk write that would exceed its buffer (address + length > 65536
\* for nxPokeBuffer, offset + length > 16384 for nxPokeBufferEx) returns
\* failure and changes nothing: not a byte of memory, not the slot table,
\* not a register, and the window is not invalidated.
C4_FailedBulkWriteChangesNothing ==
    [][/\ (last'.op = "nxPokeBuffer" /\ last'.a + Len(last'.data) > 65536)
              => (N' = N /\ ~last'.ok)
       /\ (last'.op = "nxPokeBufferEx" /\ last'.p + Len(last'.data) > 16384)
              => (N' = N /\ ~last'.ok)]_vars

\* a two-byte bulk write at 0xffff failed on a memory that holds data
C4_Witness ==
    /\ last.op = "nxPokeBuffer"
    /\ last.a + Len(last.data) > 65536
    /\ ~last.ok
    /\ N.pages # NoBytes
    /\ ~N.redraw

\* C5: multi-byte accesses translate every byte on its own: nxPoke16 stores
\* the low byte at a and the high byte at (a + 1) mod 65536, nxPeek16 reads
\* low + 256 * high from the same two addresses, and a successful
\* nxPokeBuffer stores bytes[i] at the translation of address + i and
\* invalidates the window.
C5_BytewiseTranslation ==
    [][/\ last'.op = "nxPoke16" =>
              LET a  == last'.a
                  w  == last'.data[1]
                  lo == nxCalcMem(N, a, TRUE)
                  hi == nxCalcMem(N, (a + 1) % 65536, TRUE)
              IN  /\ PageByte(N'.pages, lo.bank, lo.p) = w % 256
                  /\ PageByte(N'.pages, hi.bank, hi.p) = w \div 256
                  /\ SamePagesExcept(N.pages, N'.pages,
                         {<<lo.bank, lo.p>>, <<hi.bank, hi.p>>})
                  /\ hi.p = (lo.p + 1) % 16384
       /\ \A a \in WordAddrs :
              nxPeek16(N', a) =
                  PageByte(N'.pages, N'.banks[slotOf(a)], offsetOf(a))
                  + 256 * PageByte(N'.pages,
                                   N'.banks[slotOf((a + 1) % 65536)],
                                   offsetOf((a + 1) % 65536))
       /\ (last'.op = "nxPokeBuffer" /\ last'.a + Len(last'.data) <= 65536) =>
              LET buf   == last'.data
                  at(i) == nxCalcMem(N, last'.a + i - 1, TRUE)
              IN  /\ last'.ok
                  /\ N'.redraw
                  /\ \A i \in 1..Len(buf) :
                         PageByte(N'.pages, at(i).bank, at(i).p) = buf[i]
                  /\ SamePagesExcept(N.pages, N'.pages,
                         {<<at(i).bank, at(i).p>> : i \in 1..Len(buf)})]_vars

\* a word was written at 0xffff: its low byte is in the bank of slot 3 and
\* its high byte at address 0 in the bank of slot 0
C5_Witness ==
    /\ last.op = "nxPoke16"
    /\ last.a = 65535
    /\ ~N.layer2Write0
    /\ N.banks[3] # N.banks[0]
    /\ PageByte(N.pages, N.banks[3], 16383) = 52
    /\ PageByte(N.pages, N.banks[0], 0) = 18
    /\ nxPeek16(N, 65535) = 4660

----------------------------------------------------------------------------
(* Properties of the port decode *)

\* C6: in every reachable state every address translates, for reads and for
\* writes, to an offset address & 0x3fff in 0..16383 and to a bank below
\* NX_NUM_PAGES; a read translates to the bank of slot address >> 14.
C6_TranslationInRange ==
    \A a \in Addrs, w \in BOOLEAN :
        LET m == nxCalcMem(N, a, w)
        IN  /\ slotOf(a) \in 0..3
            /\ m.p = a % 16384
            /\ m.p \in 0..16383
            /\ m.bank \in 0..(NX_NUM_PAGES - 1)
            /\ ~w => m.bank = N.banks[slotOf(a)]

\* writes are mapped to the last sub-bank of the highest Layer 2 bank start
C6_Witness ==
    /\ N.layer2Write0
    /\ N.layer2Bank = 3
    /\ N.layer2ShadowEnable
    /\ N.layer2ShadowBankStart = 31
    /\ nxCalcMem(N, 49152, TRUE).bank = 34

\* C7: every slot holds a bank below NX_NUM_PAGES: slots 0, 1 and 2 hold
\* banks 0, 5 and 2 forever and slot 3 holds page0_2 + 8 * page3_5.
C7_SlotTable ==
    /\ \A s \in 0..3 : N.banks[s] \in 0..(NX_NUM_PAGES - 1)
    /\ N.banks[0] = 0
    /\ N.banks[1] = 5
    /\ N.banks[2] = 2
    /\ N.banks[3] = N.page0_2 + 8 * N.page3_5
    /\ N.page0_2 \in 0..7
    /\ N.page3_5 \in 0..7

\* both paging ports were written and slot 3 holds the last bank
C7_Witness ==
    /\ N.page0_2 = 7
    /\ N.page3_5 = 7
    /\ N.banks[3] = 63

\* C8: a write of v to port 0xdffd sets the high paging bits to v & 7 and
\* maps slot 3 to low + 8 * high, low being the low three bits of the byte
\* most recently written to port 0x7ffd (0 if none); reads, and writes not
\* mapped to Layer 2, of 0xc000-0xffff then address that bank.
C8_NextPagePort ==
    [][(last'.op = "nxOut" /\ last'.a = NX_PORT_NEXT_PAGE) =>
          LET v    == last'.data[1]
              bank == (mostRecent.page % 8) + 8 * (v % 8)
          IN  /\ N'.page3_5 = v % 8
              /\ N'.banks[3] = bank
              /\ \A a \in {49152, 65535} :
                     /\ nxCalcMem(N', a, FALSE).bank = bank
                     /\ ~N'.layer2Write0
                            => nxCalcMem(N', a, TRUE).bank = bank]_vars

\* port 0xdffd was written after port 0x7ffd
C8_Witness ==
    /\ last.op = "nxOut"
    /\ last.a = NX_PORT_NEXT_PAGE
    /\ last.data = <<20>>
    /\ mostRecent.page = 11
    /\ N.banks[3] = 35
    /\ nxCalcMem(N, 49152, FALSE).bank = 35

\* C9, as claimed: a write to port 0x7ffd changes the low paging bits and
\* nothing else, the bank of slot 3 included.
C9_Page128ChangesOnlyLowBits ==
    [][(last'.op = "nxOut" /\ last'.a = NX_PORT_128_PAGE) =>
          N' = [N EXCEPT !.page0_2 = last'.data[1] % 8]]_vars

\* C9, amended: a write to port 0x7ffd sets the low paging bits to v & 7 and
\* maps slot 3 to low + 8 * high, leaving all other state unchanged; the
\* slot table changes on writes to ports 0x7ffd and 0xdffd only.
C9_Page128RemapsSlot3 ==
    [][/\ (last'.op = "nxOut" /\ last'.a = NX_PORT_128_PAGE) =>
              LET v == last'.data[1]
              IN  N' = [N EXCEPT !.page0_2 = v % 8,
                                 !.banks[3] = (v % 8) + 8 * N.page3_5]
       /\ N'.banks # N.banks =>
              /\ last'.op = "nxOut"
              /\ last'.a \in {NX_PORT_128_PAGE, NX_PORT_NEXT_PAGE}]_vars

\* port 0x7ffd was written after port 0xdffd and moved slot 3
C9_Witness ==
    /\ last.op = "nxOut"
    /\ last.a = NX_PORT_128_PAGE
    /\ last.data = <<255>>
    /\ N.page3_5 = 4
    /\ N.banks[3] = 39

\* the context after the register of index reg was given the value v
RegisterWritten(S, reg, v) ==
    CASE reg = 18 -> [S EXCEPT !.layer2BankStart = v % 32, !.redraw = TRUE]
      [] reg = 19 -> [S EXCEPT !.layer2ShadowBankStart = v % 32,
                               !.redraw = TRUE]
      [] reg = 20 -> [S EXCEPT !.layer2Transparent = v]
      [] OTHER    -> S

\* C10: a write of v to the data port 0x253b acts on the register index
\* most recently written to the select port 0x243b, whatever was called in
\* between: 0x12 sets layer2BankStart to v & 31 and invalidates the window,
\* 0x13 does so for layer2ShadowBankStart, 0x14 sets layer2Transparent to v
\* without invalidating, any other index changes nothing; nxWriteReg(reg, v)
\* is the write of reg to 0x243b followed by the write of v to 0x253b, and
\* leaves nextRegSelect = reg.
C10_RegisterProtocol ==
    [][/\ (last'.op = "nxOut" /\ last'.a = NX_PORT_REG_RW) =>
              N' = RegisterWritten(N, mostRecent.select, last'.data[1])
       /\ last'.op = "nxWriteReg" =>
              /\ N'.nextRegSelect = last'.a
              /\ N' = RegisterWritten([N EXCEPT !.nextRegSelect = last'.a],
                                      last'.a, last'.data[1])
       /\ N'.nextRegSelect = mostRecent'.select]_vars

\* register 0x12 was selected, another call was made, and the data port
\* was then written
C10_Witness ==
    /\ last.op = "nxOut"
    /\ last.a = NX_PORT_REG_RW
    /\ last.data = <<255>>
    /\ mostRecent.select = 18
    /\ mostRecent.since = 2
    /\ N.layer2BankStart = 31
    /\ N.redraw

----------------------------------------------------------------------------
(* Properties of the Layer 2 access port, the ULA port and the ports the   *)
(* decode does not match                                                    *)

\* C11: a write of v to port 0x123b sets the sub-bank to bits 7-6 of v, the
\* shadow enable to bit 3, the enable to bit 1 and write0 to bit 0, requests
\* a redraw and leaves all other state as it was; bits 2, 4 and 5 of v have
\* no effect.
C11_Layer2AccessPort ==
    [][(last'.op = "nxOut" /\ last'.a = NX_PORT_LAYER2_PAGING) =>
           LET v == last'.data[1]
           IN  N' = [N EXCEPT !.layer2Bank         = (v \div 64) % 4,
                              !.layer2ShadowEnable = ((v \div 8) % 2 = 1),
                              !.layer2Enable       = ((v \div 2) % 2 = 1),
                              !.layer2Write0       = (v % 2 = 1),
                              !.redraw             = TRUE]]_vars

\* 0x0b was written to port 0x123b: sub-bank 0 and the three flags set
C11_Witness ==
    /\ last.op = "nxOut"
    /\ last.a = NX_PORT_LAYER2_PAGING
    /\ last.data = <<11>>
    /\ N.layer2Bank = 0
    /\ N.layer2ShadowEnable
    /\ N.layer2Enable
    /\ N.layer2Write0
    /\ N.redraw

\* C12: in every reachable state the Layer 2 sub-bank is 0, 1 or 2.
C12_SubBankInRange == N.layer2Bank \in {0, 1, 2}

\* C13: a write of v to a port of low byte 0xfe, whatever the high byte,
\* sets the border to v & 7, requests a redraw and changes nothing else; the
\* border is in 0..7 in every reachable state.
C13_ULAPort ==
    [][/\ (last'.op = "nxOut" /\ NX_LO(last'.a) = NX_LO(NX_PORT_ULA)) =>
              N' = [N EXCEPT !.border = last'.data[1] % 8,
                             !.redraw = TRUE]
       /\ N'.border \in 0..7]_vars

\* 0xff was written to port 0xfffe: the border is 7
C13_Witness ==
    /\ last.op = "nxOut"
    /\ NX_LO(last.a) = NX_LO(NX_PORT_ULA)
    /\ last.a # NX_PORT_ULA
    /\ last.data = <<255>>
    /\ N.border = 7
    /\ N.redraw

\* the ports the decode of nxOut has no case for
UnmatchedPort(port) ==
    LET h == NX_HI(port)
        l == NX_LO(port)
    IN  /\ l # NX_LO(NX_PORT_ULA)
        /\ ~(l = NX_LO(NX_PORT_128_PAGE)
               /\ h \in {NX_HI(NX_PORT_128_PAGE), NX_HI(NX_PORT_NEXT_PAGE)})
        /\ ~(l = NX_LO(NX_PORT_LAYER2_PAGING)
               /\ h \in {NX_HI(NX_PORT_LAYER2_PAGING),
                         NX_HI(NX_PORT_REG_SELECT), NX_HI(NX_PORT_REG_RW)})

\* C14: a write to a port that the decode does not match changes nothing,
\* and no port write or register write changes the page memory.
C14_UnmatchedPort ==
    [][/\ (last'.op = "nxOut" /\ UnmatchedPort(last'.a)) => N' = N
       /\ last'.op \in {"nxOut", "nxWriteReg"} => N'.pages = N.pages]_vars

\* port 0x303b was written after a byte was poked and Layer 2 was set up
C14_Witness ==
    /\ last.op = "nxOut"
    /\ last.a = PORT_SPRITE
    /\ UnmatchedPort(last.a)
    /\ N.pages # NoBytes
    /\ N.layer2Write0

----------------------------------------------------------------------------
(* Properties of the frame timing *)

\* C15: a call of nxUpdate at which the accumulated time exceeds the frame
\* time advances the flash counter, and on every 16th such call the counter
\* returns to 0, the flash inverts and a redraw is requested; any other call
\* of nxUpdate changes neither the counter nor the flash; the counter stays
\* in 0..15.
C15_FlashEvery16Frames ==
    [][last'.op = "nxUpdate" =>
           LET qualifies == N.currentTime + last'.a > FRAME_TIME
           IN  /\ qualifies =>
                      /\ frames' = frames + 1
                      /\ N'.flashCount = (N.flashCount + 1) % 16
                      /\ N'.flash = (IF N.flashCount = 15 THEN ~N.flash
                                                          ELSE N.flash)
                      /\ N.flashCount = 15 => N'.redraw
               /\ ~qualifies =>
                      /\ frames' = frames
                      /\ N'.flashCount = N.flashCount
                      /\ N'.flash = N.flash
               /\ N'.flashCount \in 0..15
               /\ N'.flashCount = frames' % 16
               /\ N'.flash = ((frames' \div 16) % 2 = 1)]_vars

\* the 16th frame has just passed: the flash is on for the first time
C15_Witness ==
    /\ last.op = "nxUpdate"
    /\ frames = 16
    /\ N.flashCount = 0
    /\ N.flash
    /\ N.redraw

\* C16: after every call of nxUpdate the number of frames counted is the
\* number of whole frame times in the time elapsed since nxOpen, however the
\* time was split over the calls, and no more than one frame time remains
\* accumulated.
C16_FramesFollowElapsedTime ==
    last.op = "nxUpdate" =>
        /\ frames * FRAME_TIME <= N.lastTimeStamp
        /\ N.lastTimeStamp <= (frames + 1) * FRAME_TIME
        /\ N.currentTime <= FRAME_TIME

----------------------------------------------------------------------------
(* Properties of the NIM files *)

\* the version word of a file, and whether nxDataLoad gives its bytes
NimVersion(bytes) ==
    (IF Len(bytes) > 0 THEN bytes[1] ELSE 0)
        + 256 * (IF Len(bytes) > 1 THEN bytes[2] ELSE 0)

Loadable(fs, fileName) == ~nxDataLoad(fs, fileName).bytes.null

\* C17: an image of any width and height written by nxNimWrite and read
\* back by nxNimRead comes back with the same width, the same height and
\* the same bytes; the file written is the header of three little-endian
\* words 0, width, height followed by the width * height bytes of the image.
C17_NimRoundTrip ==
    [][/\ (last'.op = "nxNimWrite" /\ last'.ok) =>
              files'[ImageFile] =
                  <<0, 0, last'.a % 256, last'.a \div 256,
                    last'.p % 256, last'.p \div 256>> \o last'.data
       /\ (/\ last.op = "nxNimWrite"
           /\ last.ok
           /\ last'.op = "nxNimRead"
           /\ last'.data = <<ImageFile>>) =>
              /\ last'.ok
              /\ caller' = [width |-> last.a, height |-> last.p,
                            img |-> Ptr(last.data)]]_vars

----------------------------------------------------------------------------
(* Properties of the PNG files *)

\* where the file holds the pixel of column x and row y of an image of the
\* given width whose scanlines fit one stored block: after the 43 bytes of
\* the header, the block header and the filter bytes of the rows so far
PngPixelOffset(width, x, y) ==
    43 + NX_BLOCK_HEADER_SIZE + y * (4 * width + 1) + 1 + 4 * x

\* the number that four bytes hold, high byte first
BigEndian(b) == ((b[1] * 256 + b[2]) * 256 + b[3]) * 256 + b[4]

C20_PngStructure ==
    (last.op = "nxPngWrite" /\ last.ok) =>
        LET f      == files[PngFile]
            length == BigEndian(SubSeq(f, 34, 37))
        IN  /\ Len(f) >= 43
            /\ SubSeq(f, 1, 8) = <<137, 80, 78, 71, 13, 10, 26, 10>>
            /\ SubSeq(f, 9, 16) = <<0, 0, 0, 13, 73, 72, 68, 82>>
            /\ BigEndian(SubSeq(f, 17, 20)) = last.a
            /\ BigEndian(SubSeq(f, 21, 24)) = last.p
            /\ SubSeq(f, 25, 29) = <<8, 6, 0, 0, 0>>
            /\ SubSeq(f, 38, 41) = <<73, 68, 65, 84>>
            /\ Len(f) = 41 + length + 4 + 12
            /\ SubSeq(f, Len(f) - 11, Len(f)) =
                   <<0, 0, 0, 0, 73, 69, 78, 68, 174, 66, 96, 130>>
            /\ \A y \in 0..(last.p - 1) :
                   f[PngPixelOffset(last.a, 0, y)] = 0

\* the raw scanline stream of an encoded file of one stored block
PngRawStream(f, width, height) ==
    SubSeq(f, 43 + NX_BLOCK_HEADER_SIZE + 1,
           43 + NX_BLOCK_HEADER_SIZE + (4 * width + 1) * height)

\* C25: the trailer of every chunk of an encoded file is the CRC-32 (seed
\* 0xFFFFFFFF, final exclusive or with 0xFFFFFFFF) of the type bytes and
\* data bytes of that chunk and of no other byte: for IDAT, of 'IDAT', the
\* two zlib bytes, the block headers and payloads and the four Adler-32
\* bytes; and the Adler-32 is that of the filter bytes and pixel bytes of
\* the raw scanline stream.
C25_ChunkTrailers ==
    (last.op = "nxPngWrite" /\ last.ok /\ last.a >= 1 /\ last.p >= 1) =>
        LET f == files[PngFile]
            n == Len(f)
        IN  /\ SubSeq(f, 30, 33) = nxCrc32(SubSeq(f, 13, 29))
            /\ SubSeq(f, n - 15, n - 12) = nxCrc32(SubSeq(f, 38, n - 16))
            /\ SubSeq(f, n - 3, n) = nxCrc32(SubSeq(f, n - 7, n - 4))
            /\ SubSeq(f, n - 19, n - 16) =
                   nxAdler32(<<0, 0, 0, 1>>,
                             PngRawStream(f, last.a, last.p))

----------------------------------------------------------------------------
(* Properties of the PNG encoder under failure.  In a step, run' tells     *)
(* what the heap and the disk did for the call and how it ended.           *)

\* a fallible resource of the encode fails: the buffer of the arena is not
\* given, or the destination cannot be created or cannot be mapped (an
\* arena of the encoder grows only after its buffer was not given)
ResourceFails(env) == ~env.alloc \/ env.dest # "made"

\* C21: when a fallible resource fails during an encode, the call returns,
\* and returns NX_NO, and the files on the disk are what they were before
\* the call: no output file is written.
C21_FailureAbandonsEncode ==
    [][(last'.op = "nxPngWrite" /\ ops' = ops + 1
            /\ ResourceFails(run'.env)) =>
           (~run'.crashed /\ ~last'.ok /\ files' = files)]_vars

----------------------------------------------------------------------------
(* Properties of the sizes of the PNG encoder *)

\* the number of bytes in the first k of the stored blocks B
RECURSIVE PayloadSum(_, _)
PayloadSum(B, k) ==
    IF k = 0 THEN 0 ELSE PayloadSum(B, k - 1) + B[k].payload

\* C24: the raw stream of (4 * width + 1) * height bytes is split into
\* stored blocks of at most 65536 bytes; the header of every block holds
\* the number of bytes that follow in the block as a 16-bit length, low
\* byte first, and then the complement of that length; the final-block
\* flag is 1 on the last block and 0 on the others; and the lengths of the
\* blocks sum to the length of the raw stream.
C24_StoredBlockFraming ==
    (last.op = "nxPngWrite" /\ last.ok) =>
        LET B == run.blocks
        IN  /\ \A i \in 1..Len(B) :
                   /\ B[i].payload <= NX_DEFLATE_MAX_BLOCK_SIZE
                   /\ B[i].header[2] + 256 * B[i].header[3] = B[i].payload
                   /\ B[i].header[4] = 255 - B[i].header[2]
                   /\ B[i].header[5] = 255 - B[i].header[3]
                   /\ B[i].header[1] = (IF i = Len(B) THEN 1 ELSE 0)
            /\ PayloadSum(B, Len(B)) = (4 * last.a + 1) * last.p

\* size of the zlib stream nxPngWrite computes for an image
PngDataSize(width, height) ==
    LET imgSize == (4 * width + 1) * height
    IN  imgSize + 5 * ((imgSize + NX_DEFLATE_MAX_BLOCK_SIZE - 1)
                           \div NX_DEFLATE_MAX_BLOCK_SIZE) + 6

\* C27: in the encode of an image of width and height at least 1, by an
\* arena that was given its buffer, the bytes asked of the arena are 43
\* for the header, 5 for every stored block, one for every row, 4 for
\* every pixel and 20 for the footer; they stay within the dataSize + 1024
\* bytes the arena starts with, and the branch that grows the arena is
\* never taken, so that the arena still is the buffer it started with.
C27_ArenaNeverGrows ==
    (last.op = "nxPngWrite" /\ last.a >= 1 /\ last.p >= 1) =>
        /\ run.arena.cursor =
               43 + 5 * Len(run.blocks) + last.p + 4 * last.a * last.p + 20
        /\ run.arena.cursor <= PngDataSize(last.a, last.p) + 1024
        /\ run.arena.size = PngDataSize(last.a, last.p) + 1024
        /\ ~run.arena.grown

\* an image of several stored blocks has been encoded, and has left of the
\* arena the 1024 bytes less the 57 that the header and the footer take
\* beyond dataSize
C27_Witness ==
    /\ last.op = "nxPngWrite"
    /\ Len(run.blocks) >= 3
    /\ run.arena.size - run.arena.cursor = 1024 - 57

----------------------------------------------------------------------------
(* Properties of the resources of file calls *)

\* the number of times r occurs among the first k of the resources s
RECURSIVE Times(_, _, _)
Times(s, r, k) ==
    IF k = 0 THEN 0
    ELSE Times(s, r, k - 1) + (IF s[k] = r THEN 1 ELSE 0)

\* C26: when a codec or file call returns, every resource it acquired has
\* been released exactly once, whether the call succeeded or failed: the
\* blob nxNimRead and nxPokeFile load, and the arena and the destination
\* blob of nxPngWrite.
C26_ResourcesReleasedOnce ==
    ~run.crashed =>
        \A r \in {"d", "arena", "newImg"} :
            Times(run.released, r, Len(run.released)) =
                Times(run.acquired, r, Len(run.acquired))

----------------------------------------------------------------------------
(* Properties of the rendering.  In a state in which the latest call is    *)
(* WM_PAINT, the image is what nxRender has made of the context N.         *)

\* rows and cells of the screen that are looked at
ScreenRows == {0, 1, 8, 64, 191}
ScreenCells == {0, 1, 31}

\* the paper index as bits 3 to 5 of the attribute, and as bits 3 to 6
PaperBits3To5(attr) == (attr \div 8) % 8
PaperBits3To6(attr) == (attr \div 8) % 16

\* the pixels the writes base make of cell x of row r are those of the
\* attribute decode with the given paper index
CellDecoded(base, r, x, Paper(_)) ==
    LET data  == nxPeekEx(N, 5, ULAPixelAddress(r) + x)
        attr  == nxPeekEx(N, 5, ULAAttrAddress(r) + x)
        ink   == colours[(attr % 8) + 8 * ((attr \div 64) % 2) + 1]
        paper == colours[Paper(attr) + 1]
        swap  == (attr \div 128) % 2 = 1 /\ N.flash
    IN  \A i \in 0..7 :
            Drawn(base, RowStart(r) + NX_BORDER_WIDTH + 8 * x + i) =
                IF (data \div (2 ^ (7 - i))) % 2 = 1
                THEN (IF swap THEN paper ELSE ink)
                ELSE (IF swap THEN ink ELSE paper)

\* C23 as stated: for every attribute byte and bitmap byte of bank 5, the
\* ink index is (attr & 7) + 8 * bit 6, the paper index is the bits 3 to
\* 5 of attr only, ink and paper are exchanged exactly when bit 7 is set
\* and the flash of the context is on, and the bitmap byte gives 8 pixels,
\* highest bit first, ink where the bit is 1 and paper where it is 0.
C23_PaperBits3To5Only ==
    last.op = "WM_PAINT" =>
        \A r \in ScreenRows :
            LET base == nxRenderULA(N, r)
            IN  \A x \in ScreenCells :
                    CellDecoded(base, r, x, PaperBits3To5)

\* C23 as amended: the same, with the paper index (attr & 0x7f) >> 3, the
\* bits 3 to 5 of attr plus 8 when bit 6 is set, so that bit 6 brightens
\* the paper as it does the ink.
C23_AttributeDecode ==
    last.op = "WM_PAINT" =>
        \A r \in ScreenRows :
            LET base == nxRenderULA(N, r)
            IN  \A x \in ScreenCells :
                    CellDecoded(base, r, x, PaperBits3To6)

\* a screen is painted, while the flash is on, on which a cell that
\* flashes and is bright has pixels of ink and of paper, and another cell
\* is bright with a paper that is not black
C23_Witness ==
    /\ last.op = "WM_PAINT"
    /\ N.flash
    /\ nxPeekEx(N, 5, ULAAttrAddress(191) + 31) >= 192
    /\ nxPeekEx(N, 5, ULAPixelAddress(191) + 31) \notin {0, 255}
    /\ nxPeekEx(N, 5, ULAAttrAddress(0)) = 120
    /\ nxPeekEx(N, 5, ULAPixelAddress(0)) \notin {0, 255}

\* rows of the window, counted from the first row of the screen, and
\* columns, counted from its first column, that are looked at: the corners
\* of the border and of the screen, and the rows where the bank changes
FrameRows == {-32, -1, 0, 64, 191, 192, 223}
FrameCols == {-32, -1, 0, 1, 255, 256, 287}

\* the offset in the image of column c of row r
FrameOffset(r, c) ==
    (r + NX_BORDER_HEIGHT) * NX_WINDOW_WIDTH + NX_BORDER_WIDTH + c

OnScreen(r, c) ==
    r >= 0 /\ r < NX_SCREEN_HEIGHT /\ c >= 0 /\ c < NX_SCREEN_WIDTH

\* the Layer 2 pixel of column x of row y of the screen
Layer2Index(S, x, y) ==
    PageByte(S.pages,
             (IF S.layer2ShadowEnable THEN S.layer2ShadowBankStart
                                      ELSE S.layer2BankStart) + y \div 64,
             (y % 64) * 256 + x)

\* the 3-bit, 3-bit and 2-bit expansion of a colour of the palette
Expansion(c) ==
    <<255, kColour_3bit[(c \div 32) + 1],
      kColour_3bit[((c \div 4) % 8) + 1], kColour_2bit[(c % 4) + 1]>>

\* C22: the base pass writes every pixel of the 320 by 256 image exactly
\* once, the border of 32 pixels on every side in the colour
\* colours[border & 7]; then, if and only if Layer 2 is enabled, every
\* pixel (x, y) of the 256 by 192 screen whose index in the Layer 2 banks
\* (from the shadow start bank when the shadow is enabled, else from the
\* normal one) differs from the transparent index is overwritten, at
\* offset (y + 32) * 320 + 32 + x, with the expansion of palette[index];
\* the transparent pixels and the border keep what the base pass wrote,
\* and with Layer 2 disabled the image is that of the base pass.
C22_ComposedFrame ==
    last.op = "WM_PAINT" =>
        \A r \in FrameRows :
            LET base  == nxRenderULA(N, r)
                frame == nxRender(N, r)
            IN  /\ Len(base) = NX_WINDOW_WIDTH
                /\ {base[i].at : i \in 1..Len(base)} =
                       FrameOffset(r, -NX_BORDER_WIDTH)
                           ..FrameOffset(r, NX_SCREEN_WIDTH
                                                + NX_BORDER_WIDTH - 1)
                /\ \A i \in 1..Len(frame) :
                       /\ frame[i].at >= FrameOffset(r, -NX_BORDER_WIDTH)
                       /\ frame[i].at <= FrameOffset(r, NX_SCREEN_WIDTH
                                                       + NX_BORDER_WIDTH - 1)
                /\ \A c \in FrameCols :
                       Drawn(frame, FrameOffset(r, c)) =
                           IF ~OnScreen(r, c)
                           THEN colours[(N.border % 8) + 1]
                           ELSE IF /\ N.layer2Enable
                                   /\ Layer2Index(N, c, r)
                                          # N.layer2Transparent
                           THEN Expansion(N.palette[Layer2Index(N, c, r)])
                           ELSE Drawn(base, FrameOffset(r, c))

\* a screen is painted, with a border that is not black, on which the
\* Layer 2 pixel at the end of the last row covers the base pass, and the
\* transparent second pixel of the first row leaves the bright paper of
\* the base pass to be seen
C22_Witness ==
    /\ last.op = "WM_PAINT"
    /\ N.layer2Enable
    /\ N.border # 0
    /\ Layer2Index(N, 255, 191) # N.layer2Transparent
    /\ Layer2Index(N, 1, 0) = N.layer2Transparent
    /\ Drawn(nxRender(N, 191), FrameOffset(191, 255)) =
           Expansion(N.palette[Layer2Index(N, 255, 191)])
    /\ Drawn(nxRender(N, 0), FrameOffset(0, 1)) = colours[16]

====
